---- MODULE Spec2Model ----
(***************************************************************************)
(* The rating bar of src/RatingBar.js: one RatingBar object on one page,   *)
(* the "ratings" item of localStorage that outlives it, the clock          *)
(* Date.now(), and the remote tally service that answers its requests.     *)
(*                                                                         *)
(* JavaScript runs the widget on one thread: the code between two awaits   *)
(* is one atomic step.  The steps are the constructor (with load() up to   *)
(* its await), the continuation of load() when the "rating" request        *)
(* settles, a click on either button (like()/dislike() up to the await),   *)
(* and the continuation of like()/dislike() when a "rate" request settles. *)
(***************************************************************************)
EXTENDS Integers, Sequences, FiniteSets, TLC

VARIABLES
    location,        \* window.location.href, as a parsed URL
    key,             \* what the last call of getURL() returned, <<>> before it
    now,             \* Date.now(), in milliseconds
    storage,         \* localStorage item "ratings"
    loadPc,          \* where load() stands: "start", "request", "done", "failed"
    likes,           \* this.likes
    dislikes,        \* this.dislikes
    total,           \* this.total
    progress,        \* this.progress: its value and max
    pendingLike,     \* like() calls suspended in their await
    pendingDislike,  \* dislike() calls suspended in their await
    fetches,         \* "rating" requests issued by the current load()
    writes,          \* setCache calls made by the current load()
    last             \* the handler that ran last, and the response it took

vars == <<location, key, now, storage, loadPc, likes, dislikes, total, progress,
          pendingLike, pendingDislike, fetches, writes, last>>

----------------------------------------------------------------------------
(* Bounds of the model. *)

\* the remote service reports counts in 0..MaxCount, and a vote response is
\* taken only while the counts stay within -MaxCount..MaxCount
MaxCount == 1
\* at most MaxPending vote requests are in flight
MaxPending == 2
\* the clock is read up to MaxSkew milliseconds after the first hour
MaxSkew == 1
\* a host has up to MaxLabels labels, a path up to MaxSegments segments
MaxLabels == 3
MaxSegments == 2

----------------------------------------------------------------------------
(* JavaScript values.  A count is a number in a correct run, but the code  *)
(* also computes with undefined (a field never set, a key a response       *)
(* lacks), NaN (undefined + 1) and null (NaN after JSON.stringify).        *)

Num(n) == [tag |-> "number", n |-> n]
Undefined == [tag |-> "undefined", n |-> 0]
NaN == [tag |-> "NaN", n |-> 0]
Null == [tag |-> "null", n |-> 0]

IsNum(v) == v.tag = "number"

\* ToNumber of the language: undefined -> NaN, null -> 0
ToNumber(v) ==
    CASE v.tag = "number" -> v
      [] v.tag = "null" -> Num(0)
      [] OTHER -> NaN

\* a + b and a - b on such values
Add(a, b) ==
    LET x == ToNumber(a)
        y == ToNumber(b)
    IN  IF IsNum(x) /\ IsNum(y) THEN Num(x.n + y.n) ELSE NaN

Sub(a, b) ==
    LET x == ToNumber(a)
        y == ToNumber(b)
    IN  IF IsNum(x) /\ IsNum(y) THEN Num(x.n - y.n) ELSE NaN

\* a > 0: false for NaN
Positive(a) == IsNum(ToNumber(a)) /\ ToNumber(a).n > 0

\* what JSON.stringify followed by JSON.parse makes of a property value:
\* NaN is written as null; an undefined property is not written at all and
\* reads back as undefined
Json(v) == IF v.tag = "NaN" THEN Null ELSE v

----------------------------------------------------------------------------
(* URLs.  A string is a sequence of tokens: a host label, a path segment,  *)
(* "." or "/".                                                             *)

\* window.location.href of the page the widget is on, as a parsed URL
Page ==
    [scheme |-> "https", host |-> <<"www", "example", "com">>,
     path |-> <<"path">>, slash |-> TRUE, query |-> "?a=1"]

\* a page visited before the run starts
OtherPage ==
    [scheme |-> "http", host |-> <<"example", "com">>,
     path |-> <<>>, slash |-> TRUE, query |-> ""]

RECURSIVE Join(_, _)
Join(parts, sep) ==
    IF Len(parts) = 0 THEN <<>>
    ELSE IF Len(parts) = 1 THEN <<parts[1]>>
    ELSE <<parts[1], sep>> \o Join(Tail(parts), sep)

\* URL.hostname and URL.pathname
Hostname(href) == Join(href.host, ".")
Pathname(href) ==
    IF Len(href.path) = 0 THEN <<"/">>
    ELSE <<"/">> \o Join(href.path, "/") \o (IF href.slash THEN <<"/">> ELSE <<>>)

\* StripSlash written as url.slice(0, -1): the last token goes, whatever it is
StripSlashChop(s) ==
    IF Len(s) > 0 THEN SubSeq(s, 1, Len(s) - 1) ELSE s

\* url.replace(/\/$/, "")
StripSlash(s) ==
    IF Len(s) > 0 /\ s[Len(s)] = "/" THEN SubSeq(s, 1, Len(s) - 1) ELSE s

\* url.replace("www.", ""): the first occurrence, wherever it is
StripWww(s) ==
    LET hits == {i \in 1..(Len(s) - 1) : s[i] = "www" /\ s[i + 1] = "."}
    IN  IF hits = {} THEN s
        ELSE LET i == CHOOSE j \in hits : \A k \in hits : j <= k
             IN  SubSeq(s, 1, i - 1) \o SubSeq(s, i + 2, Len(s))

getURL(href) == StripWww(StripSlash(Hostname(href) \o Pathname(href)))

Keys == {getURL(Page), getURL(OtherPage)}

\* the pages a widget can be on: hosts of labels, paths of segments
Labels == {"www", "example", "com"}
Segments == {"www", "path"}
Hosts == UNION {[1..n -> Labels] : n \in 1..MaxLabels}
Paths == UNION {[1..n -> Segments] : n \in 0..MaxSegments}
Hrefs == [scheme : {"https"}, host : Hosts, path : Paths, slash : BOOLEAN,
          query : {""}]

----------------------------------------------------------------------------
(* The cache: localStorage item "ratings".                                 *)

\* 1000 * 60 * 60 of setCache
TTL == 1000 * 60 * 60

NoEntry == [present |-> FALSE, likes |-> Undefined, dislikes |-> Undefined, expires |-> 0]
EmptyTable == [k \in Keys |-> NoEntry]

\* the item is absent, holds the JSON text of a table, or holds text that
\* JSON.parse rejects
NoItem == [item |-> "absent", ratings |-> EmptyTable]
Garbage == [item |-> "garbage", ratings |-> EmptyTable]
Table(t) == [item |-> "json", ratings |-> t]

\* the item that a visit of OtherPage at time 0 leaves
Visited ==
    Table([EmptyTable EXCEPT ![getURL(OtherPage)] =
              [present |-> TRUE, likes |-> Num(1), dislikes |-> Num(0),
               expires |-> TTL]])

\* JSON.parse throws SyntaxError on the item
ParseThrows(st) == st.item = "garbage"

getAllCache(st) == IF st.item = "absent" THEN EmptyTable ELSE st.ratings

\* the result of getCached: false, or the entry with cached: true
False == [cached |-> FALSE, likes |-> Undefined, dislikes |-> Undefined, expires |-> 0]

\* getCached without the test of `expires`
getCachedNoExpiry(href, st, t) ==
    LET ratings == getAllCache(st)
        url == getURL(href)
    IN  IF ~ratings[url].present THEN False
        ELSE [cached |-> TRUE, likes |-> ratings[url].likes,
              dislikes |-> ratings[url].dislikes, expires |-> ratings[url].expires]

\* getCached that never finds the entry
getCachedMiss(href, st, t) == False

getCached(href, st, t) ==
    LET ratings == getAllCache(st)
        url == getURL(href)
    IN  IF ~ratings[url].present THEN False
        ELSE IF ratings[url].expires < t THEN False
        ELSE [cached |-> TRUE, likes |-> ratings[url].likes,
              dislikes |-> ratings[url].dislikes, expires |-> ratings[url].expires]

\* setCache that starts from an empty table instead of the stored one
setCacheAlone(href, st, t, l, d) ==
    Table([EmptyTable EXCEPT ![getURL(href)] =
              [present |-> TRUE, likes |-> Json(l), dislikes |-> Json(d),
               expires |-> t + TTL]])

\* setCache that stores each count under the other's name
setCacheSwapped(href, st, t, l, d) ==
    Table([getAllCache(st) EXCEPT ![getURL(href)] =
              [present |-> TRUE, likes |-> Json(d), dislikes |-> Json(l),
               expires |-> t + TTL]])

\* the item after setCache(rating) at time t
setCache(href, st, t, l, d) ==
    Table([getAllCache(st) EXCEPT ![getURL(href)] =
              [present |-> TRUE, likes |-> Json(l), dislikes |-> Json(d),
               expires |-> t + TTL]])

----------------------------------------------------------------------------
(* update(): the derived fields of the UI.                                 *)

Progress(l, d) ==
    LET t == Add(l, d)
    IN  IF Positive(t)
        THEN [value |-> ToNumber(l).n \div t.n, max |-> t.n]
        ELSE [value |-> 1, max |-> 2]

\* update(updateCache) with a truthy argument; when JSON.parse throws in
\* setCache the fields are already assigned and the item is left as it was
Update(l, d) ==
    /\ total' = Add(l, d)
    /\ progress' = Progress(l, d)
    /\ storage' = IF ParseThrows(storage) THEN storage
                  ELSE setCache(location, storage, now, l, d)

----------------------------------------------------------------------------
(* Responses of the remote service.                                        *)

\* request() rejects: fetch fails or response.json() cannot parse the body
Throw == [kind |-> "throw", error |-> FALSE, status |-> "none",
          likes |-> Undefined, dislikes |-> Undefined]

\* the answers to "rating": the counts, or an object without them
RatingResponses ==
    { [kind |-> "json", error |-> FALSE, status |-> "none",
       likes |-> Num(l), dislikes |-> Num(d)] : l, d \in 0..MaxCount }
    \cup { [kind |-> "json", error |-> FALSE, status |-> "none",
            likes |-> Undefined, dislikes |-> Undefined] }

\* the answers to "rate": an error flag and a status
RateResponses ==
    { [kind |-> "json", error |-> e, status |-> s,
       likes |-> Undefined, dislikes |-> Undefined] :
         e \in BOOLEAN, s \in {"success", "updated", "none"} }

\* what `last` keeps of a response: whether it carried counts, not which
Shape(response) ==
    [response EXCEPT !.likes = IF IsNum(@) THEN Num(0) ELSE @,
                     !.dislikes = IF IsNum(@) THEN Num(0) ELSE @]

NoResponse == [kind |-> "none", error |-> FALSE, status |-> "none",
               likes |-> Undefined, dislikes |-> Undefined]

----------------------------------------------------------------------------
(* The widget.                                                             *)

Fresh ==
    /\ loadPc = "start"
    /\ likes = Undefined
    /\ dislikes = Undefined
    /\ total = Undefined
    /\ progress = [value |-> 0, max |-> 100]
    /\ pendingLike = 0
    /\ pendingDislike = 0
    /\ fetches = 0
    /\ writes = 0
    /\ last = [op |-> "none", response |-> NoResponse]

Init ==
    /\ location = Page
    /\ key = <<>>
    /\ now = 0
    /\ storage \in {NoItem, Garbage, Visited}
    /\ Fresh

\* new RatingBar(shadow): the constructor, and load() as far as it runs
\* at once.  JSON.parse throwing in getCached rejects load().
ConstructThrows ==
    /\ loadPc = "start"
    /\ key' = getURL(location)
    /\ ParseThrows(storage)
    /\ loadPc' = "failed"
    /\ last' = [op |-> "load", response |-> NoResponse]
    /\ UNCHANGED <<location, now, storage, likes, dislikes, total, progress,
                   pendingLike, pendingDislike, fetches, writes>>

\* getCached() returns the entry: load() adopts it and calls update(rating)
ConstructCached ==
    /\ loadPc = "start"
    /\ key' = getURL(location)
    /\ ~ParseThrows(storage)
    /\ LET rating == getCached(location, storage, now)
       IN  /\ rating.cached
           /\ likes' = rating.likes
           /\ dislikes' = rating.dislikes
           /\ Update(rating.likes, rating.dislikes)
    /\ writes' = 1
    /\ loadPc' = "done"
    /\ last' = [op |-> "load", response |-> NoResponse]
    /\ UNCHANGED <<location, now, pendingLike, pendingDislike, fetches>>

\* ConstructRequest with a getCached that deletes the entry it finds expired
ConstructRequestSweeps ==
    /\ loadPc = "start"
    /\ key' = getURL(location)
    /\ ~ParseThrows(storage)
    /\ ~getCached(location, storage, now).cached
    /\ storage' = IF storage.item = "absent" THEN storage
                  ELSE Table([getAllCache(storage) EXCEPT ![getURL(location)] = NoEntry])
    /\ fetches' = fetches + 1
    /\ loadPc' = "request"
    /\ UNCHANGED <<location, now, likes, dislikes, total, progress,
                   pendingLike, pendingDislike, writes, last>>

\* getCached() returns false: getRating() issues the request and suspends
ConstructRequest ==
    /\ loadPc = "start"
    /\ key' = getURL(location)
    /\ ~ParseThrows(storage)
    /\ ~getCached(location, storage, now).cached
    /\ fetches' = fetches + 1
    /\ loadPc' = "request"
    /\ UNCHANGED <<location, now, storage, likes, dislikes, total, progress,
                   pendingLike, pendingDislike, writes, last>>

\* the "rating" request rejects: getRating() and load() reject
LoadThrows ==
    /\ loadPc = "request"
    /\ loadPc' = "failed"
    /\ last' = [op |-> "load", response |-> Throw]
    /\ UNCHANGED <<location, key, now, storage, likes, dislikes, total, progress,
                   pendingLike, pendingDislike, fetches, writes>>

\* the "rating" request resolves: setCache(response), then load() adopts
\* the response and calls update(rating)
LoadResponse(response) ==
    /\ loadPc = "request"
    /\ likes' = response.likes
    /\ dislikes' = response.dislikes
    /\ Update(response.likes, response.dislikes)
    /\ writes' = writes + 2
    /\ loadPc' = "done"
    /\ last' = [op |-> "load", response |-> Shape(response)]
    /\ UNCHANGED <<location, key, now, pendingLike, pendingDislike, fetches>>

\* a click on the like button: like() issues its "rate" request and suspends
Like ==
    /\ loadPc # "start"
    /\ pendingLike + pendingDislike < MaxPending
    /\ pendingLike' = pendingLike + 1
    /\ UNCHANGED <<location, key, now, storage, loadPc, likes, dislikes, total, progress,
                   pendingDislike, fetches, writes, last>>

\* a click on the dislike button
Dislike ==
    /\ loadPc # "start"
    /\ pendingLike + pendingDislike < MaxPending
    /\ pendingDislike' = pendingDislike + 1
    /\ UNCHANGED <<location, key, now, storage, loadPc, likes, dislikes, total, progress,
                   pendingLike, fetches, writes, last>>

\* the counts stay within the bound of the model
InRange(t) ==
    /\ IsNum(t.likes) => t.likes.n \in -MaxCount..MaxCount
    /\ IsNum(t.dislikes) => t.dislikes.n \in -MaxCount..MaxCount

\* likeTally that takes "success" for "updated"
likeTallySwitches(response, l, d) ==
    IF response.status \in {"success", "updated"}
    THEN [likes |-> Add(l, Num(1)), dislikes |-> Sub(d, Num(1))]
    ELSE [likes |-> l, dislikes |-> d]

\* the counts like() leaves, from the status of the response
likeTally(response, l, d) ==
    LET l1 == IF response.status = "success" THEN Add(l, Num(1)) ELSE l
    IN  IF response.status = "updated"
        THEN [likes |-> Add(l1, Num(1)), dislikes |-> Sub(d, Num(1))]
        ELSE [likes |-> l1, dislikes |-> d]

\* the counts dislike() leaves
dislikeTally(response, l, d) ==
    LET d1 == IF response.status = "success" THEN Add(d, Num(1)) ELSE d
    IN  IF response.status = "updated"
        THEN [likes |-> Sub(l, Num(1)), dislikes |-> Add(d1, Num(1))]
        ELSE [likes |-> l, dislikes |-> d1]

\* LikeThrows that catches the rejection and calls update(true)
LikeThrowsUpdates ==
    /\ pendingLike > 0
    /\ Update(likes, dislikes)
    /\ pendingLike' = pendingLike - 1
    /\ last' = [op |-> "like", response |-> Throw]
    /\ UNCHANGED <<location, key, now, loadPc, likes, dislikes, pendingDislike, fetches, writes>>

\* the "rate" request of a like() rejects: like() rejects at its await
LikeThrows ==
    /\ pendingLike > 0
    /\ pendingLike' = pendingLike - 1
    /\ last' = [op |-> "like", response |-> Throw]
    /\ UNCHANGED <<location, key, now, storage, loadPc, likes, dislikes, total, progress,
                   pendingDislike, fetches, writes>>

\* the "rate" request of a like() resolves with the error flag: like() returns
LikeBails(response) ==
    /\ pendingLike > 0
    /\ response.error
    /\ pendingLike' = pendingLike - 1
    /\ last' = [op |-> "like", response |-> response]
    /\ UNCHANGED <<location, key, now, storage, loadPc, likes, dislikes, total, progress,
                   pendingDislike, fetches, writes>>

\* the "rate" request of a like() resolves without the error flag
LikeResponse(response) ==
    /\ pendingLike > 0
    /\ ~response.error
    /\ LET t == likeTally(response, likes, dislikes)
       IN  /\ InRange(t)
           /\ likes' = t.likes
           /\ dislikes' = t.dislikes
           /\ Update(t.likes, t.dislikes)
    /\ pendingLike' = pendingLike - 1
    /\ last' = [op |-> "like", response |-> response]
    /\ UNCHANGED <<location, key, now, loadPc, pendingDislike, fetches, writes>>

\* the "rate" request of a dislike() rejects
DislikeThrows ==
    /\ pendingDislike > 0
    /\ pendingDislike' = pendingDislike - 1
    /\ last' = [op |-> "dislike", response |-> Throw]
    /\ UNCHANGED <<location, key, now, storage, loadPc, likes, dislikes, total, progress,
                   pendingLike, fetches, writes>>

\* DislikeResponse that drops the response while another call is in flight
DislikeResponseWhenAlone(response) ==
    /\ pendingDislike > 0
    /\ LET t == IF pendingLike + pendingDislike > 1
                THEN [likes |-> likes, dislikes |-> dislikes]
                ELSE dislikeTally(response, likes, dislikes)
       IN  /\ InRange(t)
           /\ likes' = t.likes
           /\ dislikes' = t.dislikes
           /\ Update(t.likes, t.dislikes)
    /\ pendingDislike' = pendingDislike - 1
    /\ last' = [op |-> "dislike", response |-> response]
    /\ UNCHANGED <<location, key, now, loadPc, pendingLike, fetches, writes>>

\* the "rate" request of a dislike() resolves: the error flag is not read
DislikeResponse(response) ==
    /\ pendingDislike > 0
    /\ LET t == dislikeTally(response, likes, dislikes)
       IN  /\ InRange(t)
           /\ likes' = t.likes
           /\ dislikes' = t.dislikes
           /\ Update(t.likes, t.dislikes)
    /\ pendingDislike' = pendingDislike - 1
    /\ last' = [op |-> "dislike", response |-> response]
    /\ UNCHANGED <<location, key, now, loadPc, pendingLike, fetches, writes>>

\* the clock advances: the instants at which it is read are 0, then the
\* hour after it, then each millisecond that follows
Tick ==
    /\ now < TTL + MaxSkew
    /\ now' = IF now < TTL THEN TTL ELSE now + 1
    /\ UNCHANGED <<location, key, storage, loadPc, likes, dislikes, total, progress,
                   pendingLike, pendingDislike, fetches, writes, last>>

\* the browser loads the page again: the object and its requests are gone,
\* localStorage stays
Reload ==
    /\ loadPc # "start"
    /\ loadPc' = "start"
    /\ key' = <<>>
    /\ likes' = Undefined
    /\ dislikes' = Undefined
    /\ total' = Undefined
    /\ progress' = [value |-> 0, max |-> 100]
    /\ pendingLike' = 0
    /\ pendingDislike' = 0
    /\ fetches' = 0
    /\ writes' = 0
    /\ last' = [op |-> "none", response |-> NoResponse]
    /\ UNCHANGED <<location, now, storage>>

Next ==
    \/ ConstructThrows
    \/ ConstructCached
    \/ ConstructRequest
    \/ LoadThrows
    \/ \E response \in RatingResponses : LoadResponse(response)
    \/ Like
    \/ Dislike
    \/ LikeThrows
    \/ \E response \in RateResponses : LikeBails(response)
    \/ \E response \in RateResponses : LikeResponse(response)
    \/ DislikeThrows
    \/ \E response \in RateResponses : DislikeResponse(response)
    \/ Tick
    \/ Reload

Spec == Init /\ [][Next]_vars

----------------------------------------------------------------------------
(* getURL() on its own: a widget on any page of Hrefs computes its key.    *)

InitURL ==
    /\ location \in Hrefs
    /\ key = <<>>
    /\ now = 0
    /\ storage = NoItem
    /\ Fresh

\* a call of getURL()
CallGetURL ==
    /\ key = <<>>
    /\ key' = getURL(location)
    /\ UNCHANGED <<location, now, storage, loadPc, likes, dislikes, total, progress,
                   pendingLike, pendingDislike, fetches, writes, last>>

NextURL == CallGetURL

SpecURL == InitURL /\ [][NextURL]_vars

----------------------------------------------------------------------------
(* Vocabulary of the properties.                                           *)

\* the cache entry of the page
PageKey == getURL(Page)
Entry == getAllCache(storage)[PageKey]

\* the session holds a tally: load() has completed and both counts are numbers
Ready == loadPc = "done" /\ IsNum(likes) /\ IsNum(dislikes)

Max(a, b) == IF a >= b THEN a ELSE b

\* a "rate" response with a status and no error flag
Answer(status) == [kind |-> "json", error |-> FALSE, status |-> status,
                   likes |-> Undefined, dislikes |-> Undefined]
Created == Answer("success")
Switched == Answer("updated")

\* this step is the continuation of a like() / dislike() that took `response`
LikeDone(response) ==
    /\ pendingLike' = pendingLike - 1
    /\ last' = [op |-> "like", response |-> response]
DislikeDone(response) ==
    /\ pendingDislike' = pendingDislike - 1
    /\ last' = [op |-> "dislike", response |-> response]

\* this step is the constructor, with load() as far as it runs at once
Constructed == loadPc = "start" /\ loadPc' # "start"

\* this step is the continuation of load() after its request settled
LoadSettled == loadPc = "request" /\ loadPc' # "request" /\ last'.op = "load"

----------------------------------------------------------------------------
(* C1: in every reachable state the likes and dislikes in memory are >= 0, *)
(* and so are the likes and dislikes of every entry of the cache table.    *)
(* The code does not keep this: "updated" subtracts 1 from a count of 0.   *)
C1_CountsNonNegative ==
    /\ IsNum(likes) => likes.n >= 0
    /\ IsNum(dislikes) => dislikes.n >= 0
    /\ \A k \in Keys :
          LET e == getAllCache(storage)[k]
          IN  /\ IsNum(e.likes) => e.likes.n >= 0
              /\ IsNum(e.dislikes) => e.dislikes.n >= 0

----------------------------------------------------------------------------
(* C2, as claimed: when the constructor runs at a time now >= expires of   *)
(* the page's entry, getCached returns false, so load() does not complete  *)
(* from the cache.  Refuted at now = expires.                              *)
C2_AbsentFromExpiry ==
    [][(Constructed /\ Entry.present /\ now >= Entry.expires)
          => loadPc' # "done"]_vars

(* C2, amended: getCached returns false whenever now > expires (load()     *)
(* issues the request), and at now = expires it still returns the entry    *)
(* (load() adopts the stored counts without a request).                    *)
C2_AbsentAfterExpiry ==
    [][(Constructed /\ Entry.present)
          => /\ now > Entry.expires => loadPc' = "request"
             /\ now = Entry.expires =>
                   /\ loadPc' = "done"
                   /\ likes' = Entry.likes
                   /\ dislikes' = Entry.dislikes]_vars

\* an expired entry is in the table and load() has issued its request
C2_ExpiredEntryMissed ==
    /\ loadPc = "request"
    /\ fetches = 1
    /\ Entry.present
    /\ Entry.expires < now

----------------------------------------------------------------------------
(* C3: when a vote handler runs from Ready and the remote answers          *)
(* "updated", the chosen count increases by 1 and the opposite count       *)
(* becomes max(0, opposite - 1).  The code subtracts 1 without a floor.    *)
C3_SwitchedFloorsAtZero ==
    [][/\ (Ready /\ LikeDone(Switched))
            => /\ likes' = Num(likes.n + 1)
               /\ dislikes' = Num(Max(0, dislikes.n - 1))
       /\ (Ready /\ DislikeDone(Switched))
            => /\ dislikes' = Num(dislikes.n + 1)
               /\ likes' = Num(Max(0, likes.n - 1))]_vars

----------------------------------------------------------------------------
(* C4: when a vote handler runs from Ready and the remote answers          *)
(* "success", the chosen count increases by 1, the opposite count is       *)
(* unchanged, and the page's cache entry is rewritten with the new tally.  *)
C4_CreatedAddsOne ==
    [][/\ (Ready /\ LikeDone(Created))
            => /\ likes' = Num(likes.n + 1)
               /\ dislikes' = dislikes
               /\ Entry' = [present |-> TRUE, likes |-> Num(likes.n + 1),
                            dislikes |-> dislikes, expires |-> now + TTL]
       /\ (Ready /\ DislikeDone(Created))
            => /\ dislikes' = Num(dislikes.n + 1)
               /\ likes' = likes
               /\ Entry' = [present |-> TRUE, likes |-> likes,
                            dislikes |-> Num(dislikes.n + 1),
                            expires |-> now + TTL]]_vars

\* a like() has just taken "success" from Ready: one like, written through
C4_LikeCreated ==
    /\ Ready
    /\ last = [op |-> "like", response |-> Created]
    /\ likes = Num(1)
    /\ dislikes = Num(0)
    /\ Entry = [present |-> TRUE, likes |-> Num(1), dislikes |-> Num(0),
                expires |-> now + TTL]

----------------------------------------------------------------------------
(* C5: after every vote handler that changed the tally, and after load()   *)
(* completes, the likes and dislikes of the page's cache entry equal those *)
(* in memory, in any interleaving of the load and the votes (the stored    *)
(* item being readable).  The code breaks this when a vote response comes  *)
(* before the load response: undefined + 1 is NaN, stored as null.         *)
C5_WriteThrough ==
    [][(/\ ~ParseThrows(storage)
        /\ \/ /\ last'.op \in {"like", "dislike"}
              /\ pendingLike' + pendingDislike' < pendingLike + pendingDislike
              /\ likes' # likes \/ dislikes' # dislikes
           \/ loadPc # "done" /\ loadPc' = "done")
          => /\ Entry'.present
             /\ Entry'.likes = likes'
             /\ Entry'.dislikes = dislikes']_vars

----------------------------------------------------------------------------
(* C6: if getRating finds the page's entry present and unexpired, load()   *)
(* issues no "rating" request and completes with exactly the cached likes  *)
(* and dislikes; no request is issued after it has completed either.       *)
C6_HitIssuesNoRequest ==
    [][/\ (Constructed /\ ~ParseThrows(storage)
            /\ Entry.present /\ ~(Entry.expires < now))
            => /\ loadPc' = "done"
               /\ fetches' = 0
               /\ likes' = Entry.likes
               /\ dislikes' = Entry.dislikes
       /\ (loadPc = "done" /\ loadPc' = "done") => fetches' = fetches]_vars

\* load() has just completed from the cache with a tally of numbers
C6_ServedFromCache ==
    /\ Ready
    /\ fetches = 0
    /\ last = [op |-> "load", response |-> NoResponse]
    /\ likes.n + dislikes.n > 0

----------------------------------------------------------------------------
(* C7: a load() that missed the cache has, when it completes, issued       *)
(* exactly one "rating" request and called setCache exactly once, with the *)
(* fetched tally.  The code calls setCache twice.                          *)
C7_OneReadOneWrite ==
    (loadPc = "done" /\ fetches > 0)
        => /\ fetches = 1
           /\ writes = 1
           /\ (last.op = "load" => Entry.likes = likes /\ Entry.dislikes = dislikes)

----------------------------------------------------------------------------
(* C8: if the "rating" request rejects, or resolves with an object that    *)
(* carries no counts, load() fails: it does not complete, no tally is      *)
(* adopted and the cache is not written.  The code adopts the undefined    *)
(* counts of such an object and completes.                                 *)
C8_ReadFailurePropagates ==
    [][(LoadSettled /\ (last'.response.kind = "throw"
                         \/ ~IsNum(last'.response.likes)
                         \/ ~IsNum(last'.response.dislikes)))
          => /\ loadPc' = "failed"
             /\ likes' = likes
             /\ dislikes' = dislikes
             /\ storage' = storage]_vars

----------------------------------------------------------------------------
(* C9: if the "rate" request of like() or dislike() rejects, the likes and *)
(* dislikes in memory are unchanged, load() stays where it is (the session *)
(* stays Ready) and the cache item is not written.                         *)
C9_VoteFailureChangesNothing ==
    [][(LikeDone(Throw) \/ DislikeDone(Throw))
          => /\ likes' = likes
             /\ dislikes' = dislikes
             /\ total' = total
             /\ progress' = progress
             /\ loadPc' = loadPc
             /\ storage' = storage]_vars

\* a vote has just failed in Ready, some time after the cache was written
C9_VoteFailed ==
    /\ Ready
    /\ last.op \in {"like", "dislike"}
    /\ last.response = Throw
    /\ Entry.present
    /\ Entry.expires < now + TTL

----------------------------------------------------------------------------
(* C10: a "rate" response that carries the error flag, taken in Ready,     *)
(* leaves the likes and dislikes in memory unchanged and the cache item    *)
(* unwritten, whatever its status, for like() and for dislike().           *)
(* dislike() does not read the flag.                                       *)
C10_RejectedChangesNothing ==
    [][(/\ Ready
        /\ last'.response.kind = "json"
        /\ last'.response.error
        /\ LikeDone(last'.response) \/ DislikeDone(last'.response))
          => /\ likes' = likes
             /\ dislikes' = dislikes
             /\ storage' = storage]_vars

----------------------------------------------------------------------------
(* C11: getAllCache raises for no content of the "ratings" item, absent,   *)
(* a table or text that does not parse, so the constructor's load() never  *)
(* fails at its read of the cache: it completes from the entry or issues   *)
(* its request.  The code lets JSON.parse throw.                           *)
C11_ReadOfCacheNeverFails ==
    [][Constructed => loadPc' \in {"done", "request"}]_vars

----------------------------------------------------------------------------
(* C12: right after a step that wrote the page's entry with a tally of     *)
(* numbers, getCached returns that tally; and with no further write        *)
(* getCached returns false at every time later than the time of the write  *)
(* plus one hour.                                                          *)
C12_RoundTrip ==
    [][(storage' # storage /\ IsNum(likes') /\ IsNum(dislikes'))
          => /\ getCached(Page, storage', now').cached
             /\ getCached(Page, storage', now').likes = likes'
             /\ getCached(Page, storage', now').dislikes = dislikes'
             /\ \A later \in 1..(MaxSkew + 1) :
                   ~getCached(Page, storage', now + TTL + later).cached]_vars

\* a tally of numbers was written and read back, and the clock has since
\* passed the hour of the entry: getCached no longer returns it
C12_WrittenThenExpired ==
    /\ Ready
    /\ likes.n + dislikes.n > 0
    /\ Entry.likes = likes
    /\ Entry.dislikes = dislikes
    /\ now > Entry.expires
    /\ ~getCached(Page, storage, now).cached

----------------------------------------------------------------------------
(* C13: whenever update() has run on non-negative counts whose total is    *)
(* greater than 0, the progress bar shows the fraction likes / total:      *)
(* value * total = likes * max.  The code sets value to                    *)
(* floor(likes / total), which is 0 unless every vote is a like.           *)
C13_ProgressIsLikeShare ==
    (/\ Ready
     /\ likes.n >= 0
     /\ dislikes.n >= 0
     /\ total = Num(likes.n + dislikes.n)
     /\ total.n > 0)
        => progress.value * total.n = likes.n * progress.max

----------------------------------------------------------------------------
----------------------------------------------------------------------------
(* C15: a like() or dislike() whose response arrives while the request of  *)
(* load() is still in flight changes neither the likes and dislikes in     *)
(* memory nor the cache item, and no step of a session whose load() has    *)
(* not failed leaves NaN in a count.  The code has no such guard: the      *)
(* handler adds 1 to undefined and writes the cache.                       *)
C15_VotesWaitForLoad ==
    [][/\ (/\ loadPc = "request"
           /\ LikeDone(last'.response) \/ DislikeDone(last'.response))
            => /\ likes' = likes
               /\ dislikes' = dislikes
               /\ storage' = storage
       /\ loadPc' \in {"request", "done"}
            => likes'.tag # "NaN" /\ dislikes'.tag # "NaN"]_vars

----------------------------------------------------------------------------
(* C16: whatever other calls are in flight, a like() or dislike() whose    *)
(* response arrives in Ready adds its own delta to the likes and dislikes  *)
(* that are in memory when the response arrives: +1 to the chosen count    *)
(* for "success", +1 to it and -1 to the other for "updated", nothing for  *)
(* any other status, for a rejected request and for a like() answered with *)
(* the error flag; and the page's entry then holds the counts in memory.   *)
(* So the tally after all responses is the first one plus the sum of the   *)
(* deltas, in every order of the responses.                                *)
Delta(response) ==
    IF response.kind = "throw" \/ response.error THEN <<0, 0>>
    ELSE IF response.status = "success" THEN <<1, 0>>
    ELSE IF response.status = "updated" THEN <<1, -1>>
    ELSE <<0, 0>>

----------------------------------------------------------------------------
(* C17: a load() that completes from the cache leaves the expiry of the    *)
(* page's entry as it was, so an entry is served for at most one hour      *)
(* after the request or the vote that wrote it.  The code writes the entry *)
(* again, with a new expiry, on every such load.                           *)
C17_HitKeepsExpiry ==
    [][(Constructed /\ loadPc' = "done") => Entry'.expires = Entry.expires]_vars

----------------------------------------------------------------------------
(* C18: dislike() is like() with likes and dislikes exchanged: for every   *)
(* tally of Ready and every response, with or without the error flag, the  *)
(* counts and the cache item that dislike() leaves are those like() leaves *)
(* on the exchanged tally, exchanged back.  like() returns on the error    *)
(* flag and dislike() does not.                                            *)
C18_DislikeMirrorsLike ==
    [][(Ready /\ last'.response.kind = "json" /\ DislikeDone(last'.response))
          => LET response == last'.response
                 mirror == IF response.error
                           THEN [likes |-> dislikes, dislikes |-> likes]
                           ELSE likeTally(response, dislikes, likes)
             IN  /\ likes' = mirror.dislikes
                 /\ dislikes' = mirror.likes
                 /\ response.error => storage' = storage
                 /\ ~response.error
                       => /\ Entry'.likes = mirror.dislikes
                          /\ Entry'.dislikes = mirror.likes
                          /\ Entry'.expires = now + TTL]_vars

----------------------------------------------------------------------------
(* C19: getCached does not write the cache item.  When the constructor's   *)
(* load() does not complete from the cache, because the item is absent or  *)
(* does not parse, or the page's entry is missing or expired, the item is  *)
(* after the step what it was before it; when load() completes from the    *)
(* cache, the counts of the page's entry and every other entry are what    *)
(* they were.                                                              *)
C19_ReadLeavesItem ==
    [][/\ (Constructed /\ loadPc' # "done") => storage' = storage
       /\ (Constructed /\ loadPc' = "done")
            => /\ Entry'.likes = Entry.likes
               /\ Entry'.dislikes = Entry.dislikes
               /\ \A k \in Keys \ {PageKey} :
                     getAllCache(storage')[k] = getAllCache(storage)[k]]_vars

\* getCached has found the page's entry expired: the entry is still in the
\* table, next to the entry of the other page, and load() has its request
\* in flight
C19_ExpiredEntryKept ==
    /\ loadPc = "request"
    /\ last.op = "none"
    /\ Entry.present
    /\ Entry.expires < now
    /\ IsNum(Entry.likes)
    /\ getAllCache(storage)[getURL(OtherPage)].present

----------------------------------------------------------------------------
(* C20: a step that writes the cache item changes the entry of the page    *)
(* only: the entry of every other URL, its counts and its expiry, is what  *)
(* it was, and the expiry of the page's entry is the time of the write     *)
(* plus one hour.                                                          *)
C20_WriteTouchesOneEntry ==
    [][storage' # storage
          => /\ \A k \in Keys \ {PageKey} :
                   getAllCache(storage')[k] = getAllCache(storage)[k]
             /\ Entry'.present
             /\ Entry'.expires = now + 1000 * 60 * 60]_vars

\* the page's entry was written after the first hour and the entry of the
\* other page is the one the earlier visit left
C20_OtherEntryKept ==
    /\ now > 0
    /\ Entry.present
    /\ Entry.expires = now + TTL
    /\ \E k \in Keys \ {PageKey} :
          getAllCache(storage)[k] = [present |-> TRUE, likes |-> Num(1),
                                     dislikes |-> Num(0), expires |-> TTL]

====
